---- MODULE Spec2Model ----
(***************************************************************************)
(* Model of the lasso audit service: the synchronous /audit handler with   *)
(* its LighthouseAudit batch run and result formatter, the /audit-async    *)
(* chunk scheduler, and the /active-tasks handler.                         *)
(*                                                                         *)
(* Every await of the JavaScript source is a suspension point: one action  *)
(* runs the code from one await to the next.  Time is kept in              *)
(* milliseconds (Date.now()); numeric metric values are kept as integers   *)
(* (tenths of a millisecond, thousandths of a score).                      *)
(*                                                                         *)
(* src/src/lighthouse-audit.js:52 lacks the comma after                    *)
(* "acceptInsecureCerts: true"; the model follows the object literal as    *)
(* it is meant (the launch options are passed through to puppeteer).       *)
(***************************************************************************)
EXTENDS Integers, Sequences, FiniteSets, TLC

\* ------------------------------------------------------------------ bounds
MaxUrls == 3          \* longest URL list of a request

\* ------------------------------------------------------------ JS values
JSUndefined == [type |-> "undefined", val |-> "undefined"]
JSString(s) == [type |-> "string", val |-> s]
JSBoolean(b) == [type |-> "boolean", val |-> b]
JSNumber(n) == [type |-> "number", val |-> n]

typeof(x) == x.type

Truthy(x) ==
    \/ x.type = "boolean" /\ x.val = "true"
    \/ x.type = "string" /\ x.val # ""
    \/ x.type = "number" /\ x.val \notin {"0", "NaN"}

\* obj[k] = v
SetProp(obj, k, v) == (k :> v) @@ obj

\* obj[k], undefined when the property is missing
GetProp(obj, k) == IF k \in DOMAIN obj THEN obj[k] ELSE JSUndefined

Last(s) == s[Len(s)]
Front(s) == SubSeq(s, 1, Len(s) - 1)

\* Array.prototype.join(',')
RECURSIVE Join(_)
Join(s) ==
    IF s = <<>> THEN ""
    ELSE IF Len(s) = 1 THEN s[1]
    ELSE Join(Front(s)) \o "," \o Last(s)

\* --------------------------------------------------------- input domains
Urls == {"https://a.example", "https://b.example"}

UrlLists == UNION {[1..n -> Urls] : n \in 0..MaxUrls}

PayloadModes ==
    {JSUndefined, JSString("mobile"), JSString("desktop"), JSString("all"),
     JSNumber("7")}

PayloadFlags == {JSUndefined, JSBoolean("true"), JSBoolean("false")}

PayloadBlocked ==
    {[type |-> "undefined", list |-> <<>>],
     [type |-> "object", list |-> <<"ads", "cdn">>]}

Payloads ==
    [urls : UrlLists, blockedRequests : PayloadBlocked, mode : PayloadModes,
     storeData : PayloadFlags, storeDate : {JSUndefined, JSBoolean("true")}]

\* new Date(): the UTC calendar date and the time of day of the call
Moments ==
    {[date |-> "2021-03-01", time |-> "23:59:59.999"],
     [date |-> "2021-03-02", time |-> "00:00:00.000"]}

\* ------------------------------------------------- raw lighthouse results
\* one audit item of lhr.audits
Item(n, s) == [numericValue |-> n, score |-> s]

\* lhr.audits objects the stubbed engine answers with in the /audit run
RunAudits ==
    {("first-contentful-paint" :> Item(1234, 900)) @@ ("interactive" :> Item(0, 1000)),
     ("speed-index" :> Item(5000, 450))}

\* what lighthouse(url, options, config) resolves with
LighthouseResponses ==
    [hasAudits : BOOLEAN, audits : RunAudits, hasPerformance : BOOLEAN,
     performance : {870}]

\* perfConfig.auditResultsMapping as Object.entries yields it
auditResultsMapping ==
    << <<"firstContentfulPaint", "first-contentful-paint">>,
       <<"speedIndex", "speed-index">> >>

\* --------------------------------------------------------------- state
VARIABLES
    pc,          \* position of the /audit handler
    payload,     \* req.body of the request in progress
    mode,        \* performAudit: const mode
    storeData,   \* performAudit: const storeData
    modeIdx,     \* performAudit: i of the loop over modes
    passMode,    \* performLightouseAudit: mode argument of the pass
    results,     \* performAudit: let results
    lhAudit,     \* the LighthouseAudit instance of the pass
    i,           \* LighthouseAudit.run: loop index (0-based)
    browsers,    \* browsers launched and still running
    pages,       \* pages opened and still open
    inflight,    \* URL indexes whose lighthouse call has not settled
    auditLog,    \* lighthouse calls started: [pass, index, url, page]
    failures,    \* history: [pass, index] of the URLs whose audit failed
    res,         \* the HTTP response of the request in progress
    bqInserts    \* table.insert calls issued: [rows, status]

auditVars ==
    <<pc, payload, mode, storeData, modeIdx, passMode, results,
      lhAudit, i, browsers, pages, inflight, auditLog, failures, res,
      bqInserts>>

NoResponse == [sent |-> FALSE, status |-> 0, kind |-> "none", body |-> <<>>, message |-> ""]

NoPayload ==
    [urls |-> <<>>, blockedRequests |-> [type |-> "undefined", list |-> <<>>],
     mode |-> JSUndefined, storeData |-> JSUndefined, storeDate |-> JSUndefined]

\* new LighthouseAudit(urls, blockedRequestPatterns, auditConfig, auditFieldMapping)
NewLighthouseAudit(urls, blockedRequestPatterns, auditConfig, auditFieldMapping) ==
    [urls |-> urls,
     blockedRequestPatterns |-> blockedRequestPatterns,
     auditConfig |-> auditConfig,
     auditResults |-> <<>>,
     auditFieldMapping |-> auditFieldMapping,
     performanceScore |-> <<>>]

NoAudit == NewLighthouseAudit(<<>>, <<>>, "none", <<>>)

AuditInit ==
    /\ pc = "idle"
    /\ payload = NoPayload
    /\ mode = JSUndefined
    /\ storeData = JSUndefined
    /\ modeIdx = 0
    /\ passMode = JSUndefined
    /\ results = <<>>
    /\ lhAudit = NoAudit
    /\ i = 0
    /\ browsers = 0
    /\ pages = 0
    /\ inflight = {}
    /\ auditLog = <<>>
    /\ failures = <<>>
    /\ res = NoResponse
    /\ bqInserts = <<>>

\* ------------------------------------------------------ result formatter
\* typeof (x) == 'undefined', for the elements of auditResults and of a
\* formatted list (objects keyed by strings, or undefined)
IsUndefined(x) == "type" \in DOMAIN x /\ x["type"] = "undefined"

\* arr[idx] with a 0-based idx, undefined past the end
ArrayGet(arr, idx) == IF idx < Len(arr) THEN arr[idx + 1] ELSE JSUndefined

\* today.toJSON() / today.toISOString()
toJSON(today) == today.date \o "T" \o today.time \o "Z"

\* mutant: the sub-score is read from numericValue
RECURSIVE ReduceMappingOneValue(_, _)
ReduceMappingOneValue(audit, entries) ==
    IF entries = <<>> THEN <<>>
    ELSE LET res0 == ReduceMappingOneValue(audit, Front(entries))
             keyVal == Last(entries)
             res1 == SetProp(res0, keyVal[1],
                        IF keyVal[2] \in DOMAIN audit
                        THEN audit[keyVal[2]].numericValue ELSE 0)
         IN SetProp(res1, keyVal[1] \o "_score",
                        IF keyVal[2] \in DOMAIN audit
                        THEN audit[keyVal[2]].numericValue ELSE 0)

\* the reduce over Object.entries(this.auditFieldMapping)
RECURSIVE ReduceMapping(_, _)
ReduceMapping(audit, entries) ==
    IF entries = <<>> THEN <<>>
    ELSE LET res0 == ReduceMapping(audit, Front(entries))
             keyVal == Last(entries)
             res1 == SetProp(res0, keyVal[1],
                        IF keyVal[2] \in DOMAIN audit
                        THEN audit[keyVal[2]].numericValue ELSE 0)
         IN SetProp(res1, keyVal[1] \o "_score",
                        IF keyVal[2] \in DOMAIN audit
                        THEN audit[keyVal[2]].score ELSE 0)

\* the body of the map callback for a defined audit, `it` being the counter
FormatAudit(lh, audit, it, today) ==
    LET f0 == ReduceMapping(audit, lh.auditFieldMapping)
        f1 == SetProp(f0, "performanceScore", ArrayGet(lh.performanceScore, it))
        f2 == SetProp(f1, "date", today.date)
        f3 == SetProp(f2, "datetime", toJSON(today))
        f4 == SetProp(f3, "time", today.time)
        f5 == SetProp(f4, "url", audit["url"])
    IN SetProp(f5, "blockedRequests", Join(lh.blockedRequestPatterns))

\* LighthouseAudit.getBQFormatResults: `it` counts the defined audits seen
getBQFormatResults(lh, today) ==
    [k \in 1..Len(lh.auditResults) |->
        IF ~IsUndefined(lh.auditResults[k])
        THEN FormatAudit(lh, lh.auditResults[k],
                 Cardinality({j \in 1..(k - 1) : ~IsUndefined(lh.auditResults[j])}),
                 today)
        ELSE JSUndefined]

\* ------------------------------------------------------ storage (bq.js)
allowedFields ==
    <<"firstContentfulPaint", "largestContentfulPaint", "firstMeaningfulPaint",
      "speedIndex", "estimatedInputLatency", "totalBlockingTime",
      "maxPotentialFID", "cumulativeLayoutShift", "firstCpuIdle", "interactive",
      "serverResponseTime", "performanceScore", "date", "time",
      "formattedAudit", "url", "mode", "firstContentfulPaint_score",
      "largestContentfulPaint_score", "firstMeaningfulPaint_score",
      "speedIndex_score", "cumulativeLayoutShift_score",
      "totalBlockingTime_score", "interactive_score",
      "serverResponseTime_score">>

\* rows.map(row => pick allowedFields): a missing field is kept as undefined
preparedRows(rows) ==
    [k \in 1..Len(rows) |->
        [field \in {allowedFields[n] : n \in 1..Len(allowedFields)} |->
            IF field \in DOMAIN rows[k] THEN rows[k][field] ELSE JSUndefined]]

\* --------------------------------------------------- /audit (app.js)
modes == <<"desktop", "mobile">>

\* x == 'literal' / case 'literal': for the values a payload can hold
EqualsString(x, s) == x.type = "string" /\ x.val = s

\* performLightouseAudit: the audit configuration chosen for a mode
AuditConfigFor(m) ==
    IF EqualsString(m, "desktop") THEN "desktop-config"
    ELSE IF EqualsString(m, "mobile") THEN "lr-mobile-config"
    ELSE "perfConfig.auditConfig"

\* performLightouseAudit down to lhAudit.run() and its puppeteer.launch()
StartPass(p, m) ==
    /\ lhAudit' = NewLighthouseAudit(p.urls, p.blockedRequests.list,
                                     AuditConfigFor(m), auditResultsMapping)
    /\ passMode' = m
    /\ i' = 0
    /\ pc' = "launch"

\* the catch block of performAudit
Respond500(message) ==
    /\ res' = [sent |-> TRUE, status |-> 500, kind |-> "error",
               body |-> <<>>, message |-> message]
    /\ pc' = "responded"

\* performAudit after the switch: optional writeResultStream, then res.json
StoreAndRespond(rs) ==
    /\ results' = rs
    /\ bqInserts' =
          IF Truthy(storeData)
          THEN Append(bqInserts, [rows |-> preparedRows(rs), status |-> "pending"])
          ELSE bqInserts
    /\ res' = [sent |-> TRUE, status |-> 200, kind |-> "json",
               body |-> rs, message |-> ""]
    /\ pc' = "responded"

\* lhAudit.run() has returned: the rest of performLightouseAudit (format and
\* tag with the mode) and of performAudit up to its next await
FinishPass(lh, idx, today) ==
    LET formatted == getBQFormatResults(lh, today)
        tagged == [k \in 1..Len(formatted) |->
                      SetProp(formatted[k], "mode", passMode)]
    IN IF \E k \in 1..Len(formatted) : IsUndefined(formatted[k])
       THEN /\ Respond500("Cannot set property 'mode' of undefined")
            /\ lhAudit' = lh /\ i' = idx
            /\ UNCHANGED <<results, modeIdx, passMode, bqInserts>>
       ELSE IF EqualsString(mode, "all")
       THEN IF modeIdx + 1 < Len(modes)
            THEN /\ results' = results \o tagged
                 /\ modeIdx' = modeIdx + 1
                 /\ StartPass(payload, JSString(modes[modeIdx + 2]))
                 /\ UNCHANGED <<res, bqInserts>>
            ELSE /\ StoreAndRespond(results \o tagged)
                 /\ lhAudit' = lh /\ i' = idx
                 /\ UNCHANGED <<modeIdx, passMode>>
       ELSE /\ StoreAndRespond(tagged)
            /\ lhAudit' = lh /\ i' = idx
            /\ UNCHANGED <<modeIdx, passMode>>

\* LighthouseAudit.run: the head of the for loop with index idx
LoopHead(lh, idx, today) ==
    IF idx < Len(lh.urls)
    THEN /\ pc' = "newPage"
         /\ i' = idx
         /\ lhAudit' = lh
         /\ UNCHANGED <<results, modeIdx, passMode, res, bqInserts>>
    ELSE FinishPass(lh, idx, today)

\* POST /audit: performAudit down to the first await
performAudit(p) ==
    /\ pc = "idle"
    /\ payload' = p
    /\ mode' = IF typeof(p.mode) # "string" THEN p.mode ELSE JSString("mobile")
    /\ storeData' = IF typeof(p.storeData) # "boolean" THEN p.storeDate
                    ELSE JSBoolean("false")
    /\ results' = <<>>
    /\ modeIdx' = 0
    /\ res' = NoResponse
    /\ IF EqualsString(mode', "all")
       THEN StartPass(p, JSString(modes[1]))
       ELSE StartPass(p, mode')
    /\ UNCHANGED <<browsers, pages, inflight, auditLog, failures, bqInserts>>

\* await puppeteer.launch(...) resolves
LaunchResolved ==
    /\ pc = "launch"
    /\ browsers' = browsers + 1
    /\ \E today \in Moments : LoopHead(lhAudit, 0, today)
    /\ UNCHANGED <<payload, mode, storeData, pages, inflight, auditLog, failures>>

\* await puppeteer.launch(...) rejects: outside the try of run()
LaunchRejected ==
    /\ pc = "launch"
    /\ Respond500("Failed to launch the browser process")
    /\ UNCHANGED <<payload, mode, storeData, modeIdx, passMode,
                   results, lhAudit, i, browsers, pages, inflight, auditLog,
                   failures, bqInserts>>

\* mutant: the lighthouse call is started and not awaited
NewPageResolvedNoAwait ==
    /\ pc = "newPage"
    /\ pages' = pages + 1
    /\ inflight' = inflight \cup {i}
    /\ auditLog' = Append(auditLog,
                      [pass |-> modeIdx, index |-> i,
                       url |-> lhAudit.urls[i + 1], page |-> pages + 1])
    /\ IF i + 1 < Len(lhAudit.urls)
       THEN pc' = "newPage" /\ i' = i + 1
       ELSE pc' = "lighthouse" /\ i' = i
    /\ UNCHANGED <<payload, mode, storeData, modeIdx, passMode,
                   results, lhAudit, browsers, failures, res, bqInserts>>

\* await browser.newPage() resolves; performAudit(url, page, ...) calls lighthouse
NewPageResolved ==
    /\ pc = "newPage"
    /\ pages' = pages + 1
    /\ inflight' = inflight \cup {i}
    /\ auditLog' = Append(auditLog,
                      [pass |-> modeIdx, index |-> i,
                       url |-> lhAudit.urls[i + 1], page |-> pages + 1])
    /\ pc' = "lighthouse"
    /\ UNCHANGED <<payload, mode, storeData, modeIdx, passMode,
                   results, lhAudit, i, browsers, failures, res, bqInserts>>

\* mutant: the error is rethrown as it came, without the URL
NewPageRejectedBare ==
    /\ pc = "newPage"
    /\ Respond500("Protocol error")
    /\ failures' = Append(failures, [pass |-> modeIdx, index |-> i])
    /\ UNCHANGED <<payload, mode, storeData, modeIdx, passMode,
                   results, lhAudit, i, browsers, pages, inflight, auditLog,
                   bqInserts>>

\* await browser.newPage() rejects: caught and re-thrown by run()
NewPageRejected ==
    /\ pc = "newPage"
    /\ Respond500("Protocol error on " \o lhAudit.urls[i + 1])
    /\ failures' = Append(failures, [pass |-> modeIdx, index |-> i])
    /\ UNCHANGED <<payload, mode, storeData, modeIdx, passMode,
                   results, lhAudit, i, browsers, pages, inflight, auditLog,
                   bqInserts>>

\* mutant: without audits the callback's undefined is passed on as metrics
ThenCallbackUndefinedMetrics(url, metrics) ==
    IF ~metrics.hasPerformance
    THEN [outcome |-> "throw", defined |-> FALSE, metrics |-> <<>>, performance |-> 0]
    ELSE IF metrics.hasAudits
    THEN [outcome |-> "return", defined |-> TRUE,
          metrics |-> SetProp(metrics.audits, "url", url),
          performance |-> metrics.performance]
    ELSE [outcome |-> "return", defined |-> TRUE, metrics |-> JSUndefined,
          performance |-> metrics.performance]

\* the .then callback of LighthouseAudit.performAudit
ThenCallback(url, metrics) ==
    IF ~metrics.hasPerformance
    THEN [outcome |-> "throw", defined |-> FALSE, metrics |-> <<>>, performance |-> 0]
    ELSE IF metrics.hasAudits
    THEN [outcome |-> "return", defined |-> TRUE,
          metrics |-> SetProp(metrics.audits, "url", url),
          performance |-> metrics.performance]
    ELSE [outcome |-> "return", defined |-> FALSE, metrics |-> <<>>, performance |-> 0]

\* lighthouse(...) resolves: .then, the two pushes of run(), next iteration
LighthouseResolved(metrics) ==
    /\ pc = "lighthouse"
    /\ inflight' = inflight \ {i}
    /\ LET url == lhAudit.urls[i + 1]
           r == ThenCallback(url, metrics)
       IN IF r.outcome = "throw"
          THEN /\ Respond500("LH Audit error: Cannot read property 'score' of undefined on " \o url)
               /\ failures' = Append(failures, [pass |-> modeIdx, index |-> i])
               /\ UNCHANGED <<modeIdx, passMode, results, lhAudit, i, bqInserts>>
          ELSE IF ~r.defined
          THEN /\ Respond500("Cannot read property 'performance' of undefined on " \o url)
               /\ failures' = Append(failures, [pass |-> modeIdx, index |-> i])
               /\ UNCHANGED <<modeIdx, passMode, results, lhAudit, i, bqInserts>>
          ELSE /\ \E today \in Moments :
                    LoopHead([lhAudit EXCEPT
                                !.performanceScore = Append(@, r.performance),
                                !.auditResults = Append(@, r.metrics)],
                             i + 1, today)
               /\ UNCHANGED failures
    /\ UNCHANGED <<payload, mode, storeData, browsers, pages, auditLog>>

\* mutant: the catch of run() drops the error and the loop goes on
LighthouseRejectedSwallowed ==
    /\ pc = "lighthouse"
    /\ inflight' = inflight \ {i}
    /\ failures' = Append(failures, [pass |-> modeIdx, index |-> i])
    /\ \E today \in Moments : LoopHead(lhAudit, i + 1, today)
    /\ UNCHANGED <<payload, mode, storeData, browsers, pages, auditLog>>

\* mutant: the first rejection is answered by auditing the same URL again
LighthouseRejectedRetried ==
    /\ pc = "lighthouse"
    /\ inflight' = inflight \ {i}
    /\ failures' = Append(failures, [pass |-> modeIdx, index |-> i])
    /\ IF failures = <<>>
       THEN pc' = "newPage" /\ UNCHANGED res
       ELSE Respond500("LH Audit error: PROTOCOL_TIMEOUT on " \o lhAudit.urls[i + 1])
    /\ UNCHANGED <<payload, mode, storeData, modeIdx, passMode,
                   results, lhAudit, i, browsers, pages, auditLog, bqInserts>>

\* lighthouse(...) rejects: .catch wraps, run() appends the URL
LighthouseRejected ==
    /\ pc = "lighthouse"
    /\ inflight' = inflight \ {i}
    /\ Respond500("LH Audit error: PROTOCOL_TIMEOUT on " \o lhAudit.urls[i + 1])
    /\ failures' = Append(failures, [pass |-> modeIdx, index |-> i])
    /\ UNCHANGED <<payload, mode, storeData, modeIdx, passMode,
                   results, lhAudit, i, browsers, pages, auditLog, bqInserts>>

\* bq.js: the insert promise of writeResultStream settles; both only log
InsertResolved(k) ==
    /\ bqInserts[k].status = "pending"
    /\ bqInserts' = [bqInserts EXCEPT ![k].status = "saved"]
    /\ UNCHANGED <<pc, payload, mode, storeData, modeIdx, passMode,
                   results, lhAudit, i, browsers, pages, inflight, auditLog,
                   failures, res>>

\* mutant: a failed insert is answered with an error
InsertRejectedSurfaced(k) ==
    /\ bqInserts[k].status = "pending"
    /\ bqInserts' = [bqInserts EXCEPT ![k].status = "failed"]
    /\ res' = [sent |-> TRUE, status |-> 500, kind |-> "error",
               body |-> <<>>, message |-> "BigQuery fail"]
    /\ UNCHANGED <<pc, payload, mode, storeData, modeIdx, passMode,
                   results, lhAudit, i, browsers, pages, inflight, auditLog,
                   failures>>

InsertRejected(k) ==
    /\ bqInserts[k].status = "pending"
    /\ bqInserts' = [bqInserts EXCEPT ![k].status = "failed"]
    /\ UNCHANGED <<pc, payload, mode, storeData, modeIdx, passMode,
                   results, lhAudit, i, browsers, pages, inflight, auditLog,
                   failures, res>>

\* ------------------------------------------------ /audit-async (app.js)
MaxTicks == 3         \* clock advances in one behaviour

\* amounts of time (ms) that pass while the handler is suspended
ClockSteps == {3000, 10000}

\* req.body of POST /audit-async
AsyncBodies == [urls : UrlLists, blockedRequests : PayloadBlocked]

VARIABLES
    now,            \* Date.now(), in milliseconds
    ticks,          \* clock advances so far
    spc,            \* position of the /audit-async handler
    sbody,          \* req.body of the /audit-async request
    chunks,         \* scheduleAudits: const chunks
    chunkIdx,       \* scheduleAudits: i of the for loop
    inSeconds,      \* scheduleAudits: let inSeconds
    createTasks,    \* scheduleAudits: const createTasks
    calls,          \* createTask calls issued: [chunk, builtAt, task]
    queue,          \* tasks the queue holds: [name, task]
    startedAt,      \* history: Date.now() when scheduleAudits was entered
    createFailures, \* history: chunk indexes whose createTask call failed
    sres,           \* the HTTP response of the /audit-async request
    tpc,            \* position of the /active-tasks handler
    tres            \* the HTTP response of the /active-tasks request

schedVars ==
    <<now, ticks, spc, sbody, chunks, chunkIdx, inSeconds, createTasks, calls,
      queue, startedAt, createFailures, sres, tpc, tres>>

\* utils/api getChunkedList(list, chunkSize, isURL) over a validated list:
\* contiguous chunks of at most chunkSize elements, in order
getChunkedList(list, chunkSize) ==
    [c \in 1..((Len(list) + chunkSize - 1) \div chunkSize) |->
        SubSeq(list, (c - 1) * chunkSize + 1,
               IF c * chunkSize < Len(list) THEN c * chunkSize ELSE Len(list))]

\* mutant: the endpoint chunks by two
chunksOfRequestByTwo(urls) == getChunkedList(urls, 2)

\* scheduleAudits: getChunkedList(req.body.urls, 1, isURL)
chunksOfRequest(urls) == getChunkedList(urls, 1)

\* mutant: the ramp is added in milliseconds
scheduleTimeOfUnscaled(inSec, nowMs) == inSec + nowMs

\* scheduleTime: (inSeconds + (Date.now() / 1000)), kept in milliseconds
scheduleTimeOf(inSec, nowMs) == inSec * 1000 + nowMs

\* mutant: the ramp is not advanced
nextInSecondsStuck(inSec) == inSec

\* inSeconds += 10
nextInSeconds(inSec) == inSec + 10

\* Buffer.from(JSON.stringify(obj)).toString('base64')
base64Json(obj) == [encoding |-> "base64", of |-> [format |-> "json", value |-> obj]]

\* the task object built in one iteration
buildTask(chunk, blockedRequests, inSec, nowMs) ==
    [httpRequest |->
        [httpMethod |-> "POST",
         url |-> "SERVICE_URL/audit",
         headers |-> [ContentType |-> "application/json"],
         body |-> base64Json([urls |-> chunk, blockedRequests |-> blockedRequests]),
         scheduleTime |-> scheduleTimeOf(inSec, nowMs)]]

SchedInit ==
    /\ now = 0
    /\ ticks = 0
    /\ spc = "idle"
    /\ sbody = [urls |-> <<>>, blockedRequests |-> [type |-> "undefined", list |-> <<>>]]
    /\ chunks = <<>>
    /\ chunkIdx = 0
    /\ inSeconds = 0
    /\ createTasks = <<>>
    /\ calls = <<>>
    /\ queue = <<>>
    /\ startedAt = 0
    /\ createFailures = <<>>
    /\ sres = NoResponse
    /\ tpc = "idle"
    /\ tres = NoResponse

\* the wall clock advances (monotonic here)
Tick(d) ==
    /\ ticks < MaxTicks
    /\ ticks' = ticks + 1
    /\ now' = now + d
    /\ UNCHANGED <<spc, sbody, chunks, chunkIdx, inSeconds, createTasks, calls,
                   queue, startedAt, createFailures, sres, tpc, tres>>

\* scheduleAudits: the head of the for loop with index idx: either one
\* iteration down to await tasksClient.createTask, or res.json
SchedLoopHead(chs, blocked, idx, inSec, created) ==
    IF idx < Len(chs)
    THEN /\ calls' = Append(calls,
                        [chunk |-> idx, builtAt |-> now,
                         task |-> buildTask(chs[idx + 1], blocked, inSec, now)])
         /\ inSeconds' = nextInSeconds(inSec)
         /\ chunkIdx' = idx
         /\ createTasks' = created
         /\ spc' = "createTask"
         /\ UNCHANGED sres
    ELSE /\ sres' = [sent |-> TRUE, status |-> 200, kind |-> "json",
                     body |-> created, message |-> ""]
         /\ chunkIdx' = idx
         /\ createTasks' = created
         /\ spc' = "done"
         /\ UNCHANGED <<calls, inSeconds>>

\* POST /audit-async: scheduleAudits down to its first await
scheduleAudits(body) ==
    /\ spc = "idle"
    /\ sbody' = body
    /\ startedAt' = now
    /\ chunks' = chunksOfRequest(body.urls)
    /\ SchedLoopHead(chunks', body.blockedRequests.list, 0, 10, <<>>)
    /\ UNCHANGED <<now, ticks, queue, createFailures, tpc, tres>>

\* mutant: the entry of the created task is put in front of the list
CreateTaskResolvedUnshift ==
    /\ spc = "createTask"
    /\ LET name == Len(queue) + 1
       IN /\ queue' = Append(queue, [name |-> name, task |-> Last(calls).task])
          /\ SchedLoopHead(chunks, sbody.blockedRequests.list, chunkIdx + 1,
                           inSeconds,
                           <<[name |-> name, urls |-> chunks[chunkIdx + 1]]>>
                              \o createTasks)
    /\ UNCHANGED <<now, ticks, sbody, chunks, startedAt, createFailures, tpc, tres>>

\* await tasksClient.createTask(request) resolves: the queue holds the task
CreateTaskResolved ==
    /\ spc = "createTask"
    /\ LET name == Len(queue) + 1
       IN /\ queue' = Append(queue, [name |-> name, task |-> Last(calls).task])
          /\ SchedLoopHead(chunks, sbody.blockedRequests.list, chunkIdx + 1,
                           inSeconds,
                           Append(createTasks,
                                  [name |-> name, urls |-> chunks[chunkIdx + 1]]))
    /\ UNCHANGED <<now, ticks, sbody, chunks, startedAt, createFailures, tpc, tres>>

\* the express router's answer to a handler whose promise rejected: none
\* (express 4), or its own error page (express 5)
UnhandledRejection ==
    {NoResponse,
     [sent |-> TRUE, status |-> 500, kind |-> "html", body |-> <<>>,
      message |-> "Internal Server Error"]}

\* mutant: the failure is caught and the loop goes on with the next chunk
CreateTaskRejectedSkipped ==
    /\ spc = "createTask"
    /\ createFailures' = Append(createFailures, chunkIdx)
    /\ SchedLoopHead(chunks, sbody.blockedRequests.list, chunkIdx + 1,
                     inSeconds, createTasks)
    /\ UNCHANGED <<now, ticks, sbody, chunks, queue, startedAt, tpc, tres>>

\* await tasksClient.createTask(request) rejects: scheduleAudits has no
\* try/catch, its promise rejects and nobody handles it
CreateTaskRejected ==
    /\ spc = "createTask"
    /\ createFailures' = Append(createFailures, chunkIdx)
    /\ spc' = "aborted"
    /\ sres' \in UnhandledRejection
    /\ UNCHANGED <<now, ticks, sbody, chunks, chunkIdx, inSeconds, createTasks,
                   calls, queue, startedAt, tpc, tres>>

\* utils/tasks processTaskResults: the caller-facing shape of the task list
processTaskResults(tasks) ==
    [k \in 1..Len(tasks) |->
        [name |-> tasks[k].name,
         scheduleTime |-> tasks[k].task.httpRequest.scheduleTime]]

\* GET /active-tasks: getActiveTasks down to await listActiveTasks(...)
getActiveTasks ==
    /\ tpc = "idle"
    /\ tpc' = "listActiveTasks"
    /\ UNCHANGED <<now, ticks, spc, sbody, chunks, chunkIdx, inSeconds,
                   createTasks, calls, queue, startedAt, createFailures, sres,
                   tres>>

\* listActiveTasks resolves: processTaskResults, res.json
ListResolved ==
    /\ tpc = "listActiveTasks"
    /\ tpc' = "done"
    /\ tres' = [sent |-> TRUE, status |-> 200, kind |-> "json",
                body |-> processTaskResults(queue), message |-> ""]
    /\ UNCHANGED <<now, ticks, spc, sbody, chunks, chunkIdx, inSeconds,
                   createTasks, calls, queue, startedAt, createFailures, sres>>

\* listActiveTasks rejects: the catch block answers 500
ListRejected ==
    /\ tpc = "listActiveTasks"
    /\ tpc' = "failed"
    /\ tres' = [sent |-> TRUE, status |-> 500, kind |-> "error",
                body |-> <<>>, message |-> "DEADLINE_EXCEEDED"]
    /\ UNCHANGED <<now, ticks, spc, sbody, chunks, chunkIdx, inSeconds,
                   createTasks, calls, queue, startedAt, createFailures, sres>>

\* ------------------------------------------- the chunker, applied alone
MaxChunkSize == 3     \* largest chunk size tried

VARIABLES
    chunkState,     \* "idle", "input", then "chunked" or "async"
    chunkIn,        \* the list handed to getChunkedList
    chunkSize,      \* the chunk size handed to getChunkedList
    chunkOut        \* the chunks it returned

chunkVars == <<chunkState, chunkIn, chunkSize, chunkOut>>

ChunkIdle ==
    /\ chunkState = "idle"
    /\ chunkIn = <<>>
    /\ chunkSize = 1
    /\ chunkOut = <<>>

ChunkInputs ==
    /\ chunkState = "input"
    /\ chunkIn \in UrlLists
    /\ chunkSize \in 1..MaxChunkSize
    /\ chunkOut = <<>>

\* getChunkedList(list, chunkSize)
ApplyChunking ==
    /\ chunkState = "input"
    /\ chunkOut' = getChunkedList(chunkIn, chunkSize)
    /\ chunkState' = "chunked"
    /\ UNCHANGED <<chunkIn, chunkSize>>

\* the call scheduleAudits makes on req.body.urls
ApplyAsyncChunking ==
    /\ chunkState = "input"
    /\ chunkOut' = chunksOfRequest(chunkIn)
    /\ chunkState' = "async"
    /\ UNCHANGED <<chunkIn, chunkSize>>

\* ------------------------------------- the result formatter, applied alone
MaxAudits == 2        \* longest auditResults list formatted

\* raw keys the field mapping reads
MappedRawKeys == {auditResultsMapping[n][2] : n \in 1..Len(auditResultsMapping)}

FormatItems == {Item(1234, 900), Item(0, 0)}

\* accumulated raw results: any subset of the mapped items, tagged with a URL
FormatRawAudits ==
    {SetProp(items, "url", url) :
        items \in UNION {[D -> FormatItems] : D \in SUBSET MappedRawKeys},
        url \in {"https://a.example"}}

\* instances as run() leaves them: the two lists have the same length
FormatInstances ==
    UNION {[urls : {<<>>},
            blockedRequestPatterns : {<<>>, <<"ads", "cdn">>},
            auditConfig : {"lr-mobile-config"},
            auditResults : [1..n -> FormatRawAudits],
            auditFieldMapping : {auditResultsMapping},
            performanceScore : [1..n -> {870, 1000}]] : n \in 0..MaxAudits}

\* instances whose auditResults list may hold undefined at any position
FormatAnyInstances ==
    UNION {[urls : {<<>>},
            blockedRequestPatterns : {<<>>, <<"ads", "cdn">>},
            auditConfig : {"lr-mobile-config"},
            auditResults : [1..n -> FormatRawAudits \cup {JSUndefined}],
            auditFieldMapping : {auditResultsMapping},
            performanceScore : [1..n -> {870, 1000}]] : n \in 0..MaxAudits}

VARIABLES
    fmtState,       \* "idle", "input", then "lighthouse" or "psi"
    fmtIn,          \* the instance whose results are formatted
    fmtToday,       \* new Date() of the call
    fmtOut          \* what getBQFormatResults returned

fmtVars == <<fmtState, fmtIn, fmtToday, fmtOut>>

FormatIdle ==
    /\ fmtState = "idle"
    /\ fmtIn = NoAudit
    /\ fmtToday \in {CHOOSE m \in Moments : TRUE}
    /\ fmtOut = <<>>

FormatInputs ==
    /\ fmtState = "input"
    /\ fmtIn \in FormatInstances
    /\ fmtToday \in Moments
    /\ fmtOut = <<>>

FormatAnyInputs ==
    /\ fmtState = "input"
    /\ fmtIn \in FormatAnyInstances
    /\ fmtToday \in Moments
    /\ fmtOut = <<>>

\* PageSpeedInsightsAudit.getBQFormatResults: no blockedRequests field
psiGetBQFormatResults(lh, today) ==
    [k \in 1..Len(lh.auditResults) |->
        IF ~IsUndefined(lh.auditResults[k])
        THEN LET audit == lh.auditResults[k]
                 it == Cardinality({j \in 1..(k - 1) : ~IsUndefined(lh.auditResults[j])})
                 f0 == ReduceMapping(audit, lh.auditFieldMapping)
                 f1 == SetProp(f0, "performanceScore", ArrayGet(lh.performanceScore, it))
                 f2 == SetProp(f1, "date", today.date)
                 f3 == SetProp(f2, "datetime", toJSON(today))
                 f4 == SetProp(f3, "time", today.time)
             IN SetProp(f4, "url", audit["url"])
        ELSE JSUndefined]

ApplyLighthouseFormat ==
    /\ fmtState = "input"
    /\ fmtOut' = getBQFormatResults(fmtIn, fmtToday)
    /\ fmtState' = "lighthouse"
    /\ UNCHANGED <<fmtIn, fmtToday>>

ApplyPsiFormat ==
    /\ fmtState = "input"
    /\ fmtOut' = psiGetBQFormatResults(fmtIn, fmtToday)
    /\ fmtState' = "psi"
    /\ UNCHANGED <<fmtIn, fmtToday>>

\* ----------------------------------- concurrent /audit requests (app.js)
MaxConcUrls == 2      \* longest URL list of a concurrent request

\* the requests in progress at the same time
Requests == {1, 2}

ConcPayloads ==
    [urls : UNION {[1..n -> Urls] : n \in 0..MaxConcUrls},
     blockedRequests : {[type |-> "undefined", list |-> <<>>]},
     mode : {JSString("desktop")},
     storeData : {JSUndefined},
     storeDate : {JSUndefined}]

\* answers of the engine: with and without lhr.audits
ConcResponses ==
    {m \in LighthouseResponses :
        m.hasPerformance /\ m.audits = ("speed-index" :> Item(5000, 450))}

ConcToday == CHOOSE m \in Moments : TRUE

VARIABLES
    reqs,           \* per request: the locals of performAudit and of run()
    instances,      \* the LighthouseAudit objects, by slot
    launched,       \* browsers launched so far
    openBrowsers,   \* browsers running
    openPages,      \* pages open: <<browser, number>>
    inserts         \* table.insert calls issued: [request, rows]

concVars == <<reqs, instances, launched, openBrowsers, openPages, inserts>>

IdleRequest ==
    [pc |-> "idle", payload |-> NoPayload, mode |-> JSUndefined,
     storeData |-> JSUndefined, modeIdx |-> 0, passMode |-> JSUndefined,
     results |-> <<>>, i |-> 0, res |-> NoResponse, browser |-> 0,
     launches |-> 0, opened |-> 0, calls |-> <<>>, failed |-> FALSE]

ConcInit ==
    /\ reqs = [r \in Requests |-> IdleRequest]
    /\ instances = [r \in Requests |-> NoAudit]
    /\ launched = 0
    /\ openBrowsers = {}
    /\ openPages = {}
    /\ inserts = <<>>

\* mutant: one module-level instance serves every request
instanceOfShared(r) == 1

\* performLightouseAudit: const lhAudit = new LighthouseAudit(...) is local
\* to the call, so every request has an object of its own
instanceOf(r) == r

\* this.urls[i] of run(), as the template literal prints it
UrlAt(lh, idx) == IF idx < Len(lh.urls) THEN lh.urls[idx + 1] ELSE "undefined"

\* the catch block of performAudit, on the locals of one request
ConcRespond500(st, message) ==
    [st EXCEPT !.res = [sent |-> TRUE, status |-> 500, kind |-> "error",
                        body |-> <<>>, message |-> message],
               !.pc = "responded"]

\* res.json(results), on the locals of one request
ConcRespond200(st, rs) ==
    [st EXCEPT !.results = rs,
               !.res = [sent |-> TRUE, status |-> 200, kind |-> "json",
                        body |-> rs, message |-> ""],
               !.pc = "responded"]

\* run() has returned: format, tag, then next pass or store and respond;
\* yields the locals, the instance and the rows handed to writeResultStream
ConcFinishPass(st, lh, idx, today) ==
    LET formatted == getBQFormatResults(lh, today)
        tagged == [k \in 1..Len(formatted) |->
                      SetProp(formatted[k], "mode", st.passMode)]
        done == [st EXCEPT !.i = idx]
    IN IF \E k \in 1..Len(formatted) : IsUndefined(formatted[k])
       THEN [st |-> ConcRespond500(done, "Cannot set property 'mode' of undefined"),
             lh |-> lh, stored |-> <<>>]
       ELSE IF EqualsString(st.mode, "all") /\ st.modeIdx + 1 < Len(modes)
       THEN [st |-> [st EXCEPT !.results = @ \o tagged,
                               !.modeIdx = @ + 1,
                               !.passMode = JSString(modes[st.modeIdx + 2]),
                               !.i = 0,
                               !.pc = "launch"],
             lh |-> NewLighthouseAudit(st.payload.urls,
                        st.payload.blockedRequests.list,
                        AuditConfigFor(JSString(modes[st.modeIdx + 2])),
                        auditResultsMapping),
             stored |-> <<>>]
       ELSE LET rs == IF EqualsString(st.mode, "all")
                      THEN st.results \o tagged ELSE tagged
            IN [st |-> ConcRespond200(done, rs), lh |-> lh,
                stored |-> IF Truthy(st.storeData)
                           THEN <<preparedRows(rs)>> ELSE <<>>]

\* the head of the for loop of run() with index idx
ConcLoopHead(st, lh, idx, today) ==
    IF idx < Len(lh.urls)
    THEN [st |-> [st EXCEPT !.pc = "newPage", !.i = idx], lh |-> lh,
          stored |-> <<>>]
    ELSE ConcFinishPass(st, lh, idx, today)

\* the step of request r ends with locals, instance and rows of `next`
ConcCommit(r, next) ==
    /\ reqs' = [reqs EXCEPT ![r] = next.st]
    /\ instances' = [instances EXCEPT ![instanceOf(r)] = next.lh]
    /\ inserts' = inserts \o
          [k \in 1..Len(next.stored) |-> [request |-> r, rows |-> next.stored[k]]]

\* POST /audit for request r: performAudit down to puppeteer.launch()
ConcPerformAudit(r, p) ==
    /\ reqs[r].pc = "idle"
    /\ LET m == IF typeof(p.mode) # "string" THEN p.mode ELSE JSString("mobile")
           sd == IF typeof(p.storeData) # "boolean" THEN p.storeDate
                 ELSE JSBoolean("false")
           pm == IF EqualsString(m, "all") THEN JSString(modes[1]) ELSE m
       IN ConcCommit(r,
            [st |-> [reqs[r] EXCEPT !.payload = p, !.mode = m, !.storeData = sd,
                                    !.passMode = pm, !.pc = "launch",
                                    !.launches = 1],
             lh |-> NewLighthouseAudit(p.urls, p.blockedRequests.list,
                                       AuditConfigFor(pm), auditResultsMapping),
             stored |-> <<>>])
    /\ UNCHANGED <<launched, openBrowsers, openPages>>

\* puppeteer.launch() of request r resolves
ConcLaunchResolved(r) ==
    /\ reqs[r].pc = "launch"
    /\ launched' = launched + 1
    /\ openBrowsers' = openBrowsers \cup {launched + 1}
    /\ ConcCommit(r, ConcLoopHead([reqs[r] EXCEPT !.browser = launched + 1,
                                                  !.opened = 0],
                                  instances[instanceOf(r)], 0, ConcToday))
    /\ UNCHANGED openPages

\* puppeteer.launch() of request r rejects
ConcLaunchRejected(r) ==
    /\ reqs[r].pc = "launch"
    /\ ConcCommit(r,
          [st |-> ConcRespond500([reqs[r] EXCEPT !.failed = TRUE],
                                 "Failed to launch the browser process"),
           lh |-> instances[instanceOf(r)], stored |-> <<>>])
    /\ UNCHANGED <<launched, openBrowsers, openPages>>

\* mutant: the audit is handed the first page of the browser again
ConcNewPageResolvedReused(r) ==
    /\ reqs[r].pc = "newPage"
    /\ LET st == reqs[r]
           page == <<st.browser, 1>>
       IN /\ openPages' = openPages \cup {page}
          /\ ConcCommit(r,
                [st |-> [st EXCEPT !.pc = "lighthouse",
                                   !.opened = 1,
                                   !.calls = Append(@,
                                       [index |-> st.i,
                                        url |-> UrlAt(instances[instanceOf(r)], st.i),
                                        page |-> page])],
                 lh |-> instances[instanceOf(r)], stored |-> <<>>])
    /\ UNCHANGED <<launched, openBrowsers>>

\* browser.newPage() of request r resolves; lighthouse is called on the page
ConcNewPageResolved(r) ==
    /\ reqs[r].pc = "newPage"
    /\ LET st == reqs[r]
           page == <<st.browser, st.opened + 1>>
       IN /\ openPages' = openPages \cup {page}
          /\ ConcCommit(r,
                [st |-> [st EXCEPT !.pc = "lighthouse",
                                   !.opened = @ + 1,
                                   !.calls = Append(@,
                                       [index |-> st.i,
                                        url |-> UrlAt(instances[instanceOf(r)], st.i),
                                        page |-> page])],
                 lh |-> instances[instanceOf(r)], stored |-> <<>>])
    /\ UNCHANGED <<launched, openBrowsers>>

\* browser.newPage() of request r rejects
ConcNewPageRejected(r) ==
    /\ reqs[r].pc = "newPage"
    /\ ConcCommit(r,
          [st |-> ConcRespond500([reqs[r] EXCEPT !.failed = TRUE],
                     "Protocol error on " \o UrlAt(instances[instanceOf(r)], reqs[r].i)),
           lh |-> instances[instanceOf(r)], stored |-> <<>>])
    /\ UNCHANGED <<launched, openBrowsers, openPages>>

\* lighthouse(...) of request r resolves
ConcLighthouseResolved(r, metrics) ==
    /\ reqs[r].pc = "lighthouse"
    /\ LET st == reqs[r]
           lh == instances[instanceOf(r)]
           url == UrlAt(lh, st.i)
           out == ThenCallback(url, metrics)
       IN ConcCommit(r,
            IF out.outcome = "throw"
            THEN [st |-> ConcRespond500([st EXCEPT !.failed = TRUE],
                     "LH Audit error: Cannot read property 'score' of undefined on " \o url),
                  lh |-> lh, stored |-> <<>>]
            ELSE IF ~out.defined
            THEN [st |-> ConcRespond500([st EXCEPT !.failed = TRUE],
                     "Cannot read property 'performance' of undefined on " \o url),
                  lh |-> lh, stored |-> <<>>]
            ELSE ConcLoopHead(st,
                     [lh EXCEPT !.performanceScore = Append(@, out.performance),
                                !.auditResults = Append(@, out.metrics)],
                     st.i + 1, ConcToday))
    /\ UNCHANGED <<launched, openBrowsers, openPages>>

\* mutant: the browser is closed when the run is aborted
ConcLighthouseRejectedClosing(r) ==
    /\ reqs[r].pc = "lighthouse"
    /\ openBrowsers' = openBrowsers \ {reqs[r].browser}
    /\ openPages' = {pg \in openPages : pg[1] # reqs[r].browser}
    /\ ConcCommit(r,
          [st |-> ConcRespond500([reqs[r] EXCEPT !.failed = TRUE],
                     "LH Audit error: PROTOCOL_TIMEOUT on "
                        \o UrlAt(instances[instanceOf(r)], reqs[r].i)),
           lh |-> instances[instanceOf(r)], stored |-> <<>>])
    /\ UNCHANGED launched

\* lighthouse(...) of request r rejects
ConcLighthouseRejected(r) ==
    /\ reqs[r].pc = "lighthouse"
    /\ ConcCommit(r,
          [st |-> ConcRespond500([reqs[r] EXCEPT !.failed = TRUE],
                     "LH Audit error: PROTOCOL_TIMEOUT on "
                        \o UrlAt(instances[instanceOf(r)], reqs[r].i)),
           lh |-> instances[instanceOf(r)], stored |-> <<>>])
    /\ UNCHANGED <<launched, openBrowsers, openPages>>

\* ------------------------------------------------------- specifications
vars == <<auditVars, schedVars, chunkVars, fmtVars, concVars>>

Init == AuditInit /\ SchedInit /\ ChunkIdle /\ FormatIdle /\ ConcInit

\* the synchronous endpoint
Next ==
    \/ (\E p \in Payloads : performAudit(p)) /\ UNCHANGED <<schedVars, chunkVars, fmtVars, concVars>>
    \/ LaunchResolved /\ UNCHANGED <<schedVars, chunkVars, fmtVars, concVars>>
    \/ LaunchRejected /\ UNCHANGED <<schedVars, chunkVars, fmtVars, concVars>>
    \/ NewPageResolved /\ UNCHANGED <<schedVars, chunkVars, fmtVars, concVars>>
    \/ NewPageRejected /\ UNCHANGED <<schedVars, chunkVars, fmtVars, concVars>>
    \/ (\E metrics \in LighthouseResponses : LighthouseResolved(metrics))
          /\ UNCHANGED <<schedVars, chunkVars, fmtVars, concVars>>
    \/ LighthouseRejected /\ UNCHANGED <<schedVars, chunkVars, fmtVars, concVars>>
    \/ (\E k \in 1..Len(bqInserts) : InsertResolved(k))
          /\ UNCHANGED <<schedVars, chunkVars, fmtVars, concVars>>
    \/ (\E k \in 1..Len(bqInserts) : InsertRejected(k))
          /\ UNCHANGED <<schedVars, chunkVars, fmtVars, concVars>>

Spec == Init /\ [][Next]_vars

\* the asynchronous endpoint and the task listing
NextSched ==
    \/ (\E d \in ClockSteps : Tick(d)) /\ UNCHANGED <<auditVars, chunkVars, fmtVars, concVars>>
    \/ (\E body \in AsyncBodies : scheduleAudits(body))
          /\ UNCHANGED <<auditVars, chunkVars, fmtVars, concVars>>
    \/ CreateTaskResolved /\ UNCHANGED <<auditVars, chunkVars, fmtVars, concVars>>
    \/ CreateTaskRejected /\ UNCHANGED <<auditVars, chunkVars, fmtVars, concVars>>
    \/ getActiveTasks /\ UNCHANGED <<auditVars, chunkVars, fmtVars, concVars>>
    \/ ListResolved /\ UNCHANGED <<auditVars, chunkVars, fmtVars, concVars>>
    \/ ListRejected /\ UNCHANGED <<auditVars, chunkVars, fmtVars, concVars>>

SpecSched == Init /\ [][NextSched]_vars

\* one /audit request or one /audit-async invocation per behaviour, every
\* awaited call of the browser, of lighthouse and of the queue settling
NextLive ==
    \/ (spc = "idle" /\ \E p \in Payloads : performAudit(p))
          /\ UNCHANGED <<schedVars, chunkVars, fmtVars, concVars>>
    \/ LaunchResolved /\ UNCHANGED <<schedVars, chunkVars, fmtVars, concVars>>
    \/ LaunchRejected /\ UNCHANGED <<schedVars, chunkVars, fmtVars, concVars>>
    \/ NewPageResolved /\ UNCHANGED <<schedVars, chunkVars, fmtVars, concVars>>
    \/ NewPageRejected /\ UNCHANGED <<schedVars, chunkVars, fmtVars, concVars>>
    \/ (\E metrics \in LighthouseResponses : LighthouseResolved(metrics))
          /\ UNCHANGED <<schedVars, chunkVars, fmtVars, concVars>>
    \/ LighthouseRejected /\ UNCHANGED <<schedVars, chunkVars, fmtVars, concVars>>
    \/ (pc = "idle" /\ \E body \in AsyncBodies : scheduleAudits(body))
          /\ UNCHANGED <<auditVars, chunkVars, fmtVars, concVars>>
    \/ CreateTaskResolved /\ UNCHANGED <<auditVars, chunkVars, fmtVars, concVars>>
    \/ CreateTaskRejected /\ UNCHANGED <<auditVars, chunkVars, fmtVars, concVars>>

\* an awaited call that is pending settles, one way or the other
LaunchSettles == LaunchResolved \/ LaunchRejected
NewPageSettles == NewPageResolved \/ NewPageRejected
LighthouseSettles ==
    (\E metrics \in LighthouseResponses : LighthouseResolved(metrics))
       \/ LighthouseRejected
CreateTaskSettles == CreateTaskResolved \/ CreateTaskRejected

SpecLive ==
    /\ Init
    /\ [][NextLive]_vars
    /\ WF_vars(LaunchSettles /\ UNCHANGED <<schedVars, chunkVars, fmtVars, concVars>>)
    /\ WF_vars(NewPageSettles /\ UNCHANGED <<schedVars, chunkVars, fmtVars, concVars>>)
    /\ WF_vars(LighthouseSettles /\ UNCHANGED <<schedVars, chunkVars, fmtVars, concVars>>)
    /\ WF_vars(CreateTaskSettles /\ UNCHANGED <<auditVars, chunkVars, fmtVars, concVars>>)

\* getChunkedList on every list and chunk size within the bounds
InitChunk == AuditInit /\ SchedInit /\ ChunkInputs /\ FormatIdle /\ ConcInit

NextChunk ==
    \/ ApplyChunking /\ UNCHANGED <<auditVars, schedVars, fmtVars, concVars>>
    \/ ApplyAsyncChunking /\ UNCHANGED <<auditVars, schedVars, fmtVars, concVars>>

SpecChunk == InitChunk /\ [][NextChunk]_vars

\* getBQFormatResults on every instance within the bounds
InitFormat == AuditInit /\ SchedInit /\ ChunkIdle /\ FormatInputs /\ ConcInit

NextFormat ==
    \/ ApplyLighthouseFormat /\ UNCHANGED <<auditVars, schedVars, chunkVars, concVars>>
    \/ ApplyPsiFormat /\ UNCHANGED <<auditVars, schedVars, chunkVars, concVars>>

SpecFormat == InitFormat /\ [][NextFormat]_vars

\* getBQFormatResults on lists that may hold undefined raw results
InitFormatAny == AuditInit /\ SchedInit /\ ChunkIdle /\ FormatAnyInputs /\ ConcInit

SpecFormatAny == InitFormatAny /\ [][NextFormat]_vars

\* several /audit requests served at the same time
NextConc ==
    \/ (\E r \in Requests, p \in ConcPayloads : ConcPerformAudit(r, p))
          /\ UNCHANGED <<auditVars, schedVars, chunkVars, fmtVars>>
    \/ (\E r \in Requests : ConcLaunchResolved(r))
          /\ UNCHANGED <<auditVars, schedVars, chunkVars, fmtVars>>
    \/ (\E r \in Requests : ConcLaunchRejected(r))
          /\ UNCHANGED <<auditVars, schedVars, chunkVars, fmtVars>>
    \/ (\E r \in Requests : ConcNewPageResolved(r))
          /\ UNCHANGED <<auditVars, schedVars, chunkVars, fmtVars>>
    \/ (\E r \in Requests : ConcNewPageRejected(r))
          /\ UNCHANGED <<auditVars, schedVars, chunkVars, fmtVars>>
    \/ (\E r \in Requests, metrics \in ConcResponses : ConcLighthouseResolved(r, metrics))
          /\ UNCHANGED <<auditVars, schedVars, chunkVars, fmtVars>>
    \/ (\E r \in Requests : ConcLighthouseRejected(r))
          /\ UNCHANGED <<auditVars, schedVars, chunkVars, fmtVars>>

SpecConc == Init /\ [][NextConc]_vars

\* ------------------------------------------------------------ /audit claims
Responded200 == pc = "responded" /\ res.sent /\ res.status = 200

\* C1: once the backend has failed on the URL at index j, the handler has
\* answered with the error body and no result list, no URL after j has
\* been or is ever audited, and the response stays as it is.
C1_AllOrNothing ==
    /\ [](failures # <<>> =>
            /\ pc = "responded"
            /\ res.sent /\ res.status = 500 /\ res.kind = "error"
            /\ res.body = <<>>
            /\ Len(failures) = 1
            /\ \A k \in 1..Len(auditLog) : auditLog[k].index <= failures[1].index)
    /\ [][failures # <<>> => (auditLog' = auditLog /\ res' = res)]_vars

\* C1 witness: the run aborted on a middle URL after successful audits
C1_Witness ==
    /\ failures # <<>>
    /\ failures[1].index >= 1
    /\ failures[1].index + 1 < Len(payload.urls)
    /\ Len(lhAudit.auditResults) = failures[1].index
    /\ res.status = 500

\* C2: a successful request with mode "all" over n URLs answers 2n records,
\* n tagged desktop and n tagged mobile.
C2_ModeAllDoubling ==
    (Responded200 /\ EqualsString(payload.mode, "all")) =>
        /\ Len(res.body) = 2 * Len(payload.urls)
        /\ Cardinality({k \in 1..Len(res.body) :
                           res.body[k]["mode"] = JSString("desktop")})
              = Len(payload.urls)
        /\ Cardinality({k \in 1..Len(res.body) :
                           res.body[k]["mode"] = JSString("mobile")})
              = Len(payload.urls)

\* C3: a successful request with mode m in {mobile, desktop} over u1..un
\* answers n records in request order, record k with url uk and mode m.
C3_SingleModeTagging ==
    (Responded200 /\ payload.mode \in {JSString("mobile"), JSString("desktop")}) =>
        /\ Len(res.body) = Len(payload.urls)
        /\ \A k \in 1..Len(res.body) :
              /\ res.body[k]["url"] = payload.urls[k]
              /\ res.body[k]["mode"] = payload.mode

\* C4: at most one audit of a run is in flight, audits start in list order,
\* and an audit starts only when no earlier one is still in flight.
C4_Sequential ==
    /\ [](/\ Cardinality(inflight) <= 1
          /\ \A k \in 1..Len(auditLog) :
                auditLog[k].index =
                   Cardinality({j \in 1..(k - 1) : auditLog[j].pass = auditLog[k].pass})
          /\ \A k \in 1..Len(auditLog) :
                auditLog[k].url = payload.urls[auditLog[k].index + 1])
    /\ [][auditLog' # auditLog => inflight = {}]_vars

\* C4 witness: the third audit is in flight after two completed ones
C4_Witness ==
    /\ Len(auditLog) = 3
    /\ inflight = {2}
    /\ Len(lhAudit.auditResults) = 2

\* -------------------------------------------------------- chunking claim
\* the concatenation of a list of chunks
RECURSIVE Flatten(_)
Flatten(chs) == IF chs = <<>> THEN <<>> ELSE Flatten(Front(chs)) \o Last(chs)

\* ceil(n / c) for c >= 1
CeilDiv(n, c) == CHOOSE q \in 0..n : q * c >= n /\ (q = 0 \/ (q - 1) * c < n)

\* C5: a list of length N chunked by C gives ceil(N/C) chunks of at most C
\* elements whose concatenation is the list; the asynchronous endpoint
\* chunks by 1, one chunk per URL in order.
C5_Chunking ==
    /\ chunkState \in {"chunked", "async"} =>
          LET C == IF chunkState = "async" THEN 1 ELSE chunkSize
          IN /\ Len(chunkOut) = CeilDiv(Len(chunkIn), C)
             /\ \A c \in 1..Len(chunkOut) : Len(chunkOut[c]) <= C
             /\ Flatten(chunkOut) = chunkIn
    /\ chunkState = "async" =>
          /\ Len(chunkOut) = Len(chunkIn)
          /\ \A k \in 1..Len(chunkIn) : chunkOut[k] = <<chunkIn[k]>>

\* C5 witness: three URLs chunked by two, the last chunk being short
C5_Witness ==
    /\ chunkState = "chunked"
    /\ chunkSize = 2
    /\ Len(chunkIn) = 3
    /\ Len(chunkOut) = 2
    /\ Len(chunkOut[2]) = 1

\* ------------------------------------------------------ scheduler claims
\* 10 * (i + 1) seconds, in milliseconds
RampMs(chunk) == 10000 * (chunk + 1)

ScheduleTimeOfCall(k) == calls[k].task.httpRequest.scheduleTime

\* C6 as stated: the schedule time of chunk i is exactly 10*(i+1) seconds
\* after the start of the invocation, strictly increasing in i.
C6_ExactRamp ==
    \A k \in 1..Len(calls) :
        /\ ScheduleTimeOfCall(k) = startedAt + RampMs(calls[k].chunk)
        /\ k > 1 => ScheduleTimeOfCall(k - 1) < ScheduleTimeOfCall(k)

\* C6 amended: the schedule time of chunk i is 10*(i+1) seconds after the
\* moment the task of chunk i is built, hence at least 10*(i+1) seconds
\* after the start of the invocation, and strictly increasing in i.
C6_RampFromBuild ==
    \A k \in 1..Len(calls) :
        /\ ScheduleTimeOfCall(k) - calls[k].builtAt = RampMs(calls[k].chunk)
        /\ ScheduleTimeOfCall(k) >= startedAt + RampMs(calls[k].chunk)
        /\ k > 1 => ScheduleTimeOfCall(k - 1) < ScheduleTimeOfCall(k)

\* C6 witness: a later chunk scheduled later than the exact ramp, because
\* an awaited creation call took time
C6_Witness ==
    \E k \in 1..Len(calls) :
        /\ calls[k].chunk >= 1
        /\ ScheduleTimeOfCall(k) > startedAt + RampMs(calls[k].chunk)

\* C7: the schedule time of chunk i is never earlier than 10*(i+1) seconds
\* after the moment its task is built.
C7_LowerBound ==
    \A k \in 1..Len(calls) :
        ScheduleTimeOfCall(k) >= calls[k].builtAt + RampMs(calls[k].chunk)

\* C7 witness: three tasks built at three different moments
C7_Witness ==
    /\ Len(calls) = 3
    /\ calls[1].builtAt < calls[2].builtAt
    /\ calls[2].builtAt < calls[3].builtAt

\* C8: creation calls are issued in chunk order, one at a time and each at
\* most once; a call is issued only when every earlier one has resolved;
\* once the call for chunk j has failed no call is issued any more and the
\* queue keeps the tasks of chunks 0..j-1.
C8_SequentialAbort ==
    /\ [](/\ \A k \in 1..Len(calls) : calls[k].chunk = k - 1
          /\ Len(calls) - Len(queue) - Len(createFailures) \in {0, 1}
          /\ createFailures # <<>> =>
                /\ Len(createFailures) = 1
                /\ Len(calls) = createFailures[1] + 1
                /\ Len(queue) = createFailures[1]
                /\ \A k \in 1..Len(queue) : queue[k].task = calls[k].task)
    /\ [][Len(calls') > Len(calls) =>
             (createFailures' = <<>> /\ Len(queue') = Len(calls))]_vars
    /\ [][createFailures # <<>> => (calls' = calls /\ queue' = queue)]_vars

\* C8 witness: the creation call of a middle chunk failed
C8_Witness ==
    /\ createFailures # <<>>
    /\ createFailures[1] >= 1
    /\ createFailures[1] + 1 < Len(chunks)
    /\ Len(queue) = createFailures[1]

Is500(r) == r.sent /\ r.status = 500 /\ r.kind = "error" /\ r.message # ""

\* C9: on each of the three endpoints an error thrown by the core ends in
\* a 500 response with the error body.
C9_Every500 ==
    /\ (failures # <<>> => Is500(res))
    /\ (spc = "aborted" => Is500(sres))
    /\ (tpc = "failed" => Is500(tres))

\* ------------------------------------------------------ formatter claim
\* C10: each record of a defined raw result holds outputField and
\* outputField_score for every pair of the mapping: 0 and 0 when the raw
\* result has no item under rawKey, else the item's numericValue and score.
C10_FormatterComplete ==
    fmtState \in {"lighthouse", "psi"} =>
        /\ Len(fmtOut) = Len(fmtIn.auditResults)
        /\ \A k \in 1..Len(fmtOut) : \A n \in 1..Len(fmtIn.auditFieldMapping) :
              LET outputField == fmtIn.auditFieldMapping[n][1]
                  rawKey == fmtIn.auditFieldMapping[n][2]
                  audit == fmtIn.auditResults[k]
                  record == fmtOut[k]
              IN /\ outputField \in DOMAIN record
                 /\ (outputField \o "_score") \in DOMAIN record
                 /\ IF rawKey \in DOMAIN audit
                    THEN /\ record[outputField] = audit[rawKey].numericValue
                         /\ record[outputField \o "_score"] = audit[rawKey].score
                    ELSE /\ record[outputField] = 0
                         /\ record[outputField \o "_score"] = 0

\* C10 witness: a record with one item present (123.4, 0.9) and one absent
C10_Witness ==
    /\ fmtState = "lighthouse"
    /\ Len(fmtOut) = 2
    /\ "first-contentful-paint" \in DOMAIN fmtIn.auditResults[2]
    /\ "speed-index" \notin DOMAIN fmtIn.auditResults[2]
    /\ fmtOut[2]["firstContentfulPaint"] = 1234
    /\ fmtOut[2]["firstContentfulPaint_score"] = 900
    /\ fmtOut[2]["speedIndex"] = 0
    /\ fmtOut[2]["speedIndex_score"] = 0


\* --------------------------------------------------------- storage claims
\* C11: once an insert has been issued the request is answered with the
\* formatted records and a success status, and the settling of the insert,
\* failed or saved, leaves that response as it is.
C11_StorageFailureHidden ==
    /\ [](bqInserts # <<>> =>
            /\ Responded200
            /\ res.kind = "json"
            /\ res.body = results
            /\ Len(res.body) = Len(payload.urls))
    /\ [][bqInserts' # bqInserts /\ bqInserts # <<>> => res' = res]_vars

\* C11 witness: the insert of a non-empty result list has failed
C11_Witness ==
    /\ bqInserts # <<>>
    /\ bqInserts[1].status = "failed"
    /\ Len(bqInserts[1].rows) >= 1
    /\ Responded200


\* ------------------------------------------------ concurrent-request claims
\* C12: with several /audit requests in progress, every request accumulates
\* into its own LighthouseAudit object, a successful response holds one
\* record per URL of its own request in its own order, a request is answered
\* 500 only after a failure of its own, and a step of one request changes
\* neither the locals, the object nor the response of another.
C12_RequestIsolation ==
    /\ [](\A r \in Requests :
            LET st == reqs[r] IN
            /\ \A k \in 1..Len(instances[r].auditResults) :
                  /\ k <= Len(st.payload.urls)
                  /\ instances[r].auditResults[k]["url"] = st.payload.urls[k]
            /\ \A k \in 1..Len(st.calls) :
                  /\ st.calls[k].index < Len(st.payload.urls)
                  /\ st.calls[k].url = st.payload.urls[st.calls[k].index + 1]
            /\ (st.res.sent /\ st.res.status = 200) =>
                  /\ ~st.failed
                  /\ Len(st.res.body) = Len(st.payload.urls)
                  /\ \A k \in 1..Len(st.res.body) :
                        st.res.body[k]["url"] = st.payload.urls[k]
            /\ (st.res.sent /\ st.res.status = 500) => st.failed)
    /\ [][\A r \in Requests :
            reqs'[r] # reqs[r] =>
               \A q \in Requests \ {r} :
                  reqs'[q] = reqs[q] /\ instances'[q] = instances[q]]_vars

\* C12 witness: request 2 started after request 1, audited other URLs and
\* failed, while request 1 is in the middle of its run with one result kept
C12_Witness ==
    /\ reqs[1].pc = "lighthouse" /\ reqs[1].i = 1
    /\ Len(instances[1].auditResults) = 1
    /\ reqs[1].browser = 1 /\ reqs[2].browser = 2
    /\ reqs[2].res.status = 500 /\ reqs[2].failed
    /\ Len(reqs[2].calls) = 2
    /\ reqs[2].payload.urls # reqs[1].payload.urls


\* ------------------------------------------------- scheduler response claim
\* C13: when every createTask call of an invocation has succeeded, the
\* endpoint answers 200 with one entry per chunk in chunk order, entry k
\* holding the name the queue returned for the k-th call and the URLs of
\* chunk k, the k-th call having carried chunk k.
C13_SchedulerResponse ==
    spc = "done" =>
        /\ createFailures = <<>>
        /\ sres.sent /\ sres.status = 200 /\ sres.kind = "json"
        /\ Len(sres.body) = Len(chunks)
        /\ Len(queue) = Len(chunks)
        /\ Len(calls) = Len(chunks)
        /\ \A k \in 1..Len(chunks) :
              /\ calls[k].chunk = k - 1
              /\ queue[k].task = calls[k].task
              /\ sres.body[k].name = queue[k].name
              /\ sres.body[k].urls = chunks[k]

\* C13 witness: three chunks, not all alike, were created and answered
C13_Witness ==
    /\ spc = "done"
    /\ Len(chunks) = 3
    /\ chunks[1] # chunks[3]
    /\ Len(sres.body) = 3


CaughtMessages ==
    {"Protocol error",
     "LH Audit error: PROTOCOL_TIMEOUT",
     "LH Audit error: Cannot read property 'score' of undefined",
     "Cannot read property 'performance' of undefined"}

\* C15: once an audit has failed, the request is answered 500 with the
\* caught message followed by " on " and the failing URL, which is the URL
\* at the first index whose audit failed, every earlier URL having a result.
C15_FailureContext ==
    failures # <<>> =>
        LET j == failures[1].index IN
        /\ j < Len(payload.urls)
        /\ Len(lhAudit.auditResults) = j
        /\ Is500(res)
        /\ res.sent /\ res.kind = "error"
        /\ res.message \in {m \o " on " \o payload.urls[j + 1] : m \in CaughtMessages}

\* C15 witness: the second URL, different from the first, failed to open
C15_Witness ==
    /\ failures # <<>>
    /\ failures[1].index = 1
    /\ payload.urls[2] # payload.urls[1]
    /\ res.message = "Protocol error on " \o payload.urls[2]


\* ------------------------------------------------------- browser page claims
\* C16: every audit call gets a page that was opened for it in the same
\* step, and no two audit calls, of one run or of different runs, get the
\* same page.
C16_FreshPage ==
    /\ [](\A c, e \in {<<r, k>> : r \in Requests, k \in 1..MaxConcUrls} :
            (/\ c # e
             /\ c[2] <= Len(reqs[c[1]].calls)
             /\ e[2] <= Len(reqs[e[1]].calls))
               => reqs[c[1]].calls[c[2]].page # reqs[e[1]].calls[e[2]].page)
    /\ [][\A r \in Requests :
            reqs'[r].calls # reqs[r].calls =>
               /\ Len(reqs'[r].calls) = Len(reqs[r].calls) + 1
               /\ Last(reqs'[r].calls).page \notin openPages
               /\ Last(reqs'[r].calls).page \in openPages']_vars

\* C16 witness: two runs side by side have each audited two URLs
C16_Witness ==
    /\ Len(reqs[1].calls) = 2
    /\ Len(reqs[2].calls) = 2
    /\ reqs[1].browser # reqs[2].browser
    /\ Cardinality(openPages) = 4


\* --------------------------------------------------------- termination claim
\* C17: when every awaited call settles, a batch run that has started ends
\* with the response of its request and a chunk-submission loop that has
\* started ends with its answer or its abort; at the end either every URL
\* (chunk) was processed or the loop stopped at its first failure, and no
\* URL of a pass and no chunk is attempted twice.
C17_Termination ==
    /\ [](\A k, l \in 1..Len(auditLog) :
            (auditLog[k].pass = auditLog[l].pass
               /\ auditLog[k].index = auditLog[l].index) => k = l)
    /\ [](\A k, l \in 1..Len(calls) : calls[k].chunk = calls[l].chunk => k = l)
    /\ [](Len(failures) <= 1 /\ Len(createFailures) <= 1)
    /\ [](pc = "responded" =>
            \/ /\ failures = <<>> /\ res.status = 200
               /\ Len(auditLog) = Len(payload.urls)
               /\ Len(lhAudit.auditResults) = Len(payload.urls)
            \/ /\ failures = <<>> /\ res.status = 500 /\ auditLog = <<>>
            \/ /\ failures # <<>> /\ res.status = 500
               /\ Len(lhAudit.auditResults) = failures[1].index
               /\ Len(auditLog) <= failures[1].index + 1)
    /\ [](spc = "done" =>
            createFailures = <<>> /\ Len(calls) = Len(chunks))
    /\ [](spc = "aborted" =>
            createFailures # <<>> /\ Len(calls) = createFailures[1] + 1)
    /\ (pc \in {"launch", "newPage", "lighthouse"}) ~> (pc = "responded")
    /\ (spc = "createTask") ~> (spc \in {"done", "aborted"})

\* C17 witness: a run over three URLs ended at the failure of the second
C17_Witness ==
    /\ pc = "responded"
    /\ Len(payload.urls) = 3
    /\ failures # <<>>
    /\ failures[1].index = 1
    /\ Len(auditLog) = 2


\* ------------------------------------------------------- accumulation claim
\* C18: at every await, return and throw of a run the instance's
\* auditResults and performanceScore have the same length k, entry j is the
\* defined result of urls[j], and k is the loop index; a failed audit, a
\* lighthouse call resolving without audits included, appends nothing.
C18_Accumulation ==
    /\ [](LET k == Len(lhAudit.auditResults) IN
            /\ Len(lhAudit.performanceScore) = k
            /\ k <= Len(lhAudit.urls)
            /\ \A j \in 1..k :
                  /\ ~IsUndefined(lhAudit.auditResults[j])
                  /\ lhAudit.auditResults[j]["url"] = lhAudit.urls[j]
            /\ pc \in {"newPage", "lighthouse"} => k = i
            /\ Responded200 => k = Len(lhAudit.urls)
            /\ failures # <<>> => k = failures[1].index)
    /\ [][failures' # failures => lhAudit' = lhAudit]_vars

\* C18 witness: the second lighthouse call resolved without audits and the
\* run threw with one result accumulated
C18_Witness ==
    /\ pc = "responded"
    /\ failures # <<>>
    /\ failures[1].index = 1
    /\ res.message =
          "Cannot read property 'performance' of undefined on " \o payload.urls[2]
    /\ Len(lhAudit.auditResults) = 1
    /\ Len(lhAudit.performanceScore) = 1


\* ----------------------------------------------------- storage gating claim
\* C19: a request answered with its results has issued a storage insert
\* exactly when its payload's storeData is the boolean true.
C19_StorageGating ==
    Responded200 =>
        (bqInserts # <<>> <=> payload.storeData = JSBoolean("true"))


\* --------------------------------------------------- browser resource claim
\* URLs whose loop iteration the run of a request has entered
Attempted(st) ==
    IF st.pc \in {"idle", "launch"} \/ st.browser = 0 THEN 0
    ELSE IF st.pc \in {"newPage", "lighthouse"} \/ st.failed THEN st.i + 1
    ELSE st.i

\* pages open in the browser of a request
PagesOf(st) == {pg \in openPages : pg[1] = st.browser}

\* C20 as stated: a run that has exited, by return or by abort, has its one
\* browser running with as many open pages as URLs attempted, and there is
\* one open browser per run.
C20_OneBrowserOnePagePerUrl ==
    /\ \A r \in Requests :
          reqs[r].pc = "responded" =>
             /\ reqs[r].launches = 1
             /\ reqs[r].browser \in openBrowsers
             /\ Cardinality(PagesOf(reqs[r])) = Attempted(reqs[r])
    /\ Cardinality(openBrowsers) =
          Cardinality({r \in Requests : reqs[r].pc \notin {"idle", "launch"}})

\* C20 amended: a run calls launch once; after a launch that succeeded its
\* browser is running and holds one page per newPage call that succeeded,
\* which is every URL attempted but the one whose newPage failure aborted
\* the run; a run whose launch failed has no browser; nothing is closed, and
\* there is one open browser per run whose launch succeeded.
C20_BrowsersLeftOpen ==
    /\ [](\A r \in Requests :
            LET st == reqs[r] IN
            /\ st.launches = (IF st.pc = "idle" THEN 0 ELSE 1)
            /\ st.browser # 0 =>
                  /\ st.browser \in openBrowsers
                  /\ \A q \in Requests \ {r} : reqs[q].browser # st.browser
                  /\ Cardinality(PagesOf(st)) = Len(st.calls)
                  /\ Len(st.calls) = st.opened
                  /\ Len(st.calls) <= Attempted(st)
                  /\ Attempted(st) <= Len(st.calls) + 1
                  /\ (st.pc = "responded" /\ ~st.failed) =>
                        Len(st.calls) = Len(st.payload.urls)
                  /\ (st.pc = "responded" /\ Attempted(st) = Len(st.calls) + 1) =>
                        st.res.message =
                           "Protocol error on " \o st.payload.urls[st.i + 1]
            /\ (st.pc = "responded" /\ st.browser = 0) =>
                  st.failed /\ st.calls = <<>>)
    /\ [](/\ openBrowsers = 1..launched
          /\ Cardinality(openBrowsers) =
                Cardinality({r \in Requests : reqs[r].browser # 0}))
    /\ [][openBrowsers \subseteq openBrowsers' /\ openPages \subseteq openPages']_vars

\* C20 witness: one run returned with two pages open, another aborted on a
\* page that failed to open, one page open; both browsers still run
C20_Witness ==
    /\ reqs[1].pc = "responded" /\ reqs[1].res.status = 200
    /\ Len(reqs[1].payload.urls) = 2
    /\ reqs[2].pc = "responded" /\ reqs[2].failed
    /\ Attempted(reqs[2]) = 2 /\ Len(reqs[2].calls) = 1
    /\ Cardinality(openBrowsers) = 2
    /\ Cardinality(openPages) = 3

====
